---- MODULE Spec2Model ----
(***************************************************************************)
(* Model of the broker package of iot-cloud-server: the Manager (event     *)
(* exchange monitor, gateway channel registry, RPC entry point) and the    *)
(* GatewayChannel (message pump, per-message processing goroutines,        *)
(* Stop/Close).                                                            *)
(*                                                                         *)
(* Strings are sequences of one-character strings, so that strings.Split   *)
(* and the byte buffer of the pump are computed as the code computes them. *)
(***************************************************************************)
EXTENDS Integers, Sequences, FiniteSets, TLC

VARIABLES
    conn,       \* Manager.Conn : "nil" | "open" | "closed"
    mch,        \* Manager.Ch   : "nil" | "open" | "closed"
    evQue,      \* Manager.evQue.Name is non-empty (queue declared)
    evChan,     \* Manager.evChan : "nil" | "open"  (consumer registered)
    queDeleted, \* number of QueueDelete calls issued by Manager.Close
    gwChans,    \* Manager.gwChans : gatewayID -> session index, NoSession if absent
    sessions,   \* every GatewayChannel ever built, in construction order
    evPc,       \* position of ProcessExchangeEvents: "read" | "remove"
    evGw,       \* gatewayID held by the queue.deleted branch between Close and Remove
    ctxDone,    \* the context passed to ProcessExchangeEvents is cancelled
    panicked,   \* a goroutine panicked: the process is gone
    hist,       \* history of the manager's operations (see HInit)
    cnt         \* inputs consumed so far (see CInit)

vars == <<conn, mch, evQue, evChan, queDeleted, gwChans, sessions, evPc, evGw,
          ctxDone, panicked, hist, cnt>>

----------------------------------------------------------------------------
(* Bounds of the exploration *)
MaxEvents == 2      \* exchange events delivered to the event loop
MaxFrames == 3      \* inbound frames delivered to the pumps, all sessions together
MaxCloseCalls == 2  \* calls of Manager.Close
BufLen == 3         \* length of the pump's receive buffer (50*1024 in the source)

NoSession == 0
NoLogic == 0         \* c.bl is nil
NoHeader == <<"?">>  \* the "name" header is absent from the delivery

(* Queue names that the broker reports, as strings *)
QueueNames ==
    { <<"a", ".", "i", "n">>,
      <<"b", ".", "i", "n">>,
      <<"a", ".", "o", "u", "t">>,
      <<"a">> }

EventTypes == {"queue.created", "queue.deleted", "queue.bound"}

ExchangeEvents == [eventType : EventTypes, queueName : QueueNames \cup {NoHeader}]

(* Inbound frames, as byte strings *)
Frames ==
    { <<"{", "a", "}">>,
      <<"x">> }

----------------------------------------------------------------------------
(* strings.Split(s, sep) for a one-character separator *)
RECURSIVE SplitFrom(_, _, _)
SplitFrom(s, sep, cur) ==
    IF s = <<>> THEN <<cur>>
    ELSE IF Head(s) = sep THEN <<cur>> \o SplitFrom(Tail(s), sep, <<>>)
    ELSE SplitFrom(Tail(s), sep, Append(cur, Head(s)))

Split(s, sep) == SplitFrom(s, sep, <<>>)

(* Every gatewayID the event loop can compute from the queue names *)
GatewayIDs == { Split(q, ".")[1] : q \in QueueNames }

(* json.Unmarshal(bytes, &IotMessage{}) : an object with a gateway id, or an error *)
Unmarshal(bytes) ==
    IF Len(bytes) = 3 /\ bytes[1] = "{" /\ bytes[3] = "}" /\ bytes[2] \in {"a", "b"}
    THEN [err |-> FALSE, GatewayId |-> bytes[2]]
    ELSE [err |-> TRUE, GatewayId |-> ""]

(* copy(buffer, frame) as done by the reader's Read *)
CopyInto(buffer, frame) ==
    [i \in 1..Len(buffer) |-> IF i <= Len(frame) THEN frame[i] ELSE buffer[i]]

----------------------------------------------------------------------------
(* GatewayChannel *)

(* Outcomes of the three transport closes made by one GatewayChannel.Close *)
CloseOutcomes == [outErr : BOOLEAN, inErr : BOOLEAN, out2Err : BOOLEAN]

NoFailure == [outErr |-> FALSE, inErr |-> FALSE, out2Err |-> FALSE]

(* NewGatewayChannel followed by Start: the fields of the new channel and of
   the pump goroutine that Start launches *)
NewGatewayChannel(gatewayID) ==
    [ gatewayId |-> gatewayID,
      cancelled |-> FALSE,           \* c.ctx is done
      outCloses |-> 0,               \* calls of c.out.Close()
      inCloses  |-> 0,               \* calls of c.in.Close()
      offline   |-> 0,               \* offline status updates run
      closeCalls |-> 0,              \* calls of GatewayChannel.Close
      lastClose |-> [stopErr |-> FALSE, err |-> FALSE],  \* what the last Close met and returned
      bl        |-> NoLogic,         \* c.bl: the step whose CreateLogic built it
      broken    |-> FALSE,           \* the broker closed the transport
      closedLive |-> FALSE,          \* a transport close ran before c.cancel()
      notRegistered |-> FALSE,       \* a message was dropped by the existence check
      pump      |-> "idle",          \* pump goroutine, before Start
      buffer    |-> [i \in 1..BufLen |-> "0"],
      received  |-> 0,               \* frames received by the pump
      badSeen   |-> FALSE,           \* a malformed frame was received
      steps     |-> {} ]             \* processing goroutines in flight

Start(c) == [c EXCEPT !.pump = "select"]

(* The statements of Stop, in the order of the source *)
Cancel(c) == [c EXCEPT !.cancelled = TRUE]

CloseOut(c) == [c EXCEPT !.outCloses = @ + 1, !.closedLive = @ \/ ~c.cancelled]

CloseIn(c) == [c EXCEPT !.inCloses = @ + 1, !.closedLive = @ \/ ~c.cancelled]

OfflineTask(c) == [c EXCEPT !.offline = @ + 1]

(* A Stop that gives up at the first close that fails *)
Stop_ReturnOnError(c, o) ==
    IF o.outErr THEN CloseOut(Cancel(c))
    ELSE IF o.inErr THEN CloseIn(CloseOut(Cancel(c)))
    ELSE OfflineTask(CloseIn(CloseOut(Cancel(c))))

(* A Stop that closes the transport first and cancels afterwards *)
Stop_CloseBeforeCancel(c, o) == OfflineTask(Cancel(CloseIn(CloseOut(c))))

(* GatewayChannel.Stop, with the outcomes o of its two closes: their errors
   are logged only *)
Stop(c, o) == OfflineTask(CloseIn(CloseOut(Cancel(c))))

(* GatewayChannel.Close: Stop, then c.out.Close() whose error is the result *)
GatewayChannelClose(c, o) ==
    [CloseOut(Stop(c, o)) EXCEPT
                       !.closeCalls = @ + 1,
                       !.lastClose = [stopErr |-> (o.outErr \/ o.inErr),
                                      err |-> o.out2Err]]

CloseErr(o) == o.out2Err

----------------------------------------------------------------------------
NoEvent == [eventType |-> "none", queueName |-> <<>>]

OtherEvent == [eventType |-> "other", queueName |-> <<>>]

(* The last operation of the manager and what it did: op is "event" or "close";
   event and kind are the actionable event read and the branch taken; the rest
   is what Manager.Close attempted and returned *)
NoLast ==
    [op |-> "none", event |-> NoEvent, kind |-> "none",
     queTried |-> FALSE, chTried |-> FALSE, connTried |-> FALSE, err |-> "none"]

HInit ==
    [ lastActionable |-> [g \in GatewayIDs |-> "none"],  \* last actionable event handled
      closedSince    |-> [g \in GatewayIDs |-> FALSE],   \* Manager.Close called since
      last           |-> NoLast ]

CInit == [events |-> 0, frames |-> 0, closes |-> 0]

Init ==
    /\ conn = "nil"
    /\ mch = "nil"
    /\ evQue = FALSE
    /\ evChan = "nil"
    /\ queDeleted = 0
    /\ gwChans = [g \in GatewayIDs |-> NoSession]
    /\ sessions = <<>>
    /\ evPc = "read"
    /\ evGw = <<>>
    /\ ctxDone = FALSE
    /\ panicked = FALSE
    /\ hist = HInit
    /\ cnt = CInit

----------------------------------------------------------------------------
(* Manager.Open: dial and open the management channel *)
Open ==
    /\ ~panicked
    /\ conn = "nil"
    /\ \E dialOk \in BOOLEAN, chOk \in BOOLEAN :
         /\ conn' = IF dialOk THEN "open" ELSE "nil"
         /\ mch' = IF dialOk /\ chOk THEN "open" ELSE "nil"
    /\ UNCHANGED <<evQue, evChan, queDeleted, gwChans, sessions, evPc, evGw,
                   ctxDone, panicked, hist, cnt>>

(* Manager.EventExchangeInit: declare, bind and consume the event queue *)
EventExchangeInit ==
    /\ ~panicked
    /\ conn = "open" /\ mch = "open" /\ evChan = "nil"
    /\ \E declOk \in BOOLEAN, restOk \in BOOLEAN :
         /\ evQue' = (evQue \/ declOk)
         /\ evChan' = IF declOk /\ restOk THEN "open" ELSE "nil"
    /\ UNCHANGED <<conn, mch, queDeleted, gwChans, sessions, evPc, evGw,
                   ctxDone, panicked, hist, cnt>>

(* The caller of ProcessExchangeEvents cancels its context *)
CancelCtx ==
    /\ ~panicked
    /\ ~ctxDone
    /\ ctxDone' = TRUE
    /\ UNCHANGED <<conn, mch, evQue, evChan, queDeleted, gwChans, sessions, evPc,
                   evGw, panicked, hist, cnt>>

----------------------------------------------------------------------------
(* GatewayChannelsMap *)
Add(m, gatewayID, ch) == [m EXCEPT ![gatewayID] = ch]

Get(m, gatewayID) == m[gatewayID]

Remove(m, gatewayID) == [m EXCEPT ![gatewayID] = NoSession]

(* GetChannels returns the stored channels; the order is that of a map walk *)
Stored(m) == { m[g] : g \in { k \in DOMAIN m : m[k] # NoSession } }

GetChannels(m) ==
    { order \in [1..Cardinality(Stored(m)) -> Stored(m)] :
        \A i, j \in DOMAIN order : i # j => order[i] # order[j] }

----------------------------------------------------------------------------
(* ProcessExchangeEvents *)

Actionable(e) ==
    /\ e.queueName # NoHeader
    /\ Len(Split(e.queueName, ".")) > 1
    /\ Split(e.queueName, ".")[2] = <<"i", "n">>
    /\ e.eventType \in {"queue.created", "queue.deleted"}

(* readExchangeEvent returns the interruption error, the loop continues *)
ReadInterrupted ==
    /\ ~panicked
    /\ evPc = "read"
    /\ ctxDone
    /\ UNCHANGED vars

(* readExchangeEvent reads from the closed delivery channel, the loop continues *)
ReadClosed ==
    /\ ~panicked
    /\ evPc = "read"
    /\ evChan = "open" /\ mch = "closed"
    /\ UNCHANGED vars

(* The result of one iteration: the new values of gwChans, sessions, evPc, evGw
   and panicked, and the kind of step taken *)
Same(kind) ==
    [gwChans |-> gwChans, sessions |-> sessions, evPc |-> "read", evGw |-> evGw,
     panicked |-> FALSE, kind |-> kind]

(* case "queue.created"; newOk is whether NewGatewayChannel could build the
   reader and the writer, it returns nil otherwise and ch.Start() panics *)
HandleCreated(gatewayID, newOk) ==
    IF ~newOk
    THEN [Same("panic") EXCEPT !.panicked = TRUE]
    ELSE LET ch == Start(NewGatewayChannel(gatewayID))
             ss == Append(sessions, ch)
         IN [Same("created") EXCEPT !.sessions = ss,
                                    !.gwChans = Add(gwChans, gatewayID, Len(ss))]

(* A queue.deleted branch that closes whatever Get returned *)
HandleDeleted_NoNilCheck(gatewayID, o) ==
    LET ch == Get(gwChans, gatewayID)
    IN IF ch # NoSession
       THEN [Same("closing") EXCEPT
               !.sessions = [sessions EXCEPT ![ch] = GatewayChannelClose(sessions[ch], o)],
               !.evPc = "remove",
               !.evGw = gatewayID]
       ELSE [Same("absent") EXCEPT !.panicked = TRUE]

(* case "queue.deleted", up to ch.Close(); o are the outcomes of the closes *)
HandleDeleted(gatewayID, o) ==
    LET ch == Get(gwChans, gatewayID)
    IN IF ch # NoSession
       THEN [Same("closing") EXCEPT
               !.sessions = [sessions EXCEPT ![ch] = GatewayChannelClose(sessions[ch], o)],
               !.evPc = "remove",
               !.evGw = gatewayID]
       ELSE Same("absent")

(* The body of the loop for the event ee *)
HandleEvent(ee, newOk, o) ==
    IF ee.queueName = NoHeader
    THEN [Same("panic") EXCEPT !.panicked = TRUE]   \* Headers["name"].(string)
    ELSE
      LET strArr == Split(ee.queueName, ".")
          gatewayID == strArr[1]
      IN
      IF Len(strArr) > 1 /\ strArr[2] = <<"i", "n">>
      THEN CASE ee.eventType = "queue.created" -> HandleCreated(gatewayID, newOk)
             [] ee.eventType = "queue.deleted" -> HandleDeleted(gatewayID, o)
             [] OTHER -> Same("ignored")
      ELSE Same("ignored")

(* One iteration of the loop on a delivered event *)
ProcessExchangeEvents ==
    /\ ~panicked
    /\ evPc = "read"
    /\ evChan = "open" /\ mch = "open"
    /\ cnt.events < MaxEvents
    /\ \E ee \in ExchangeEvents :
       \E newOk \in (IF Actionable(ee) /\ ee.eventType = "queue.created"
                     THEN BOOLEAN ELSE {TRUE}) :
       \E o \in (IF Actionable(ee) /\ ee.eventType = "queue.deleted"
                 THEN CloseOutcomes ELSE {NoFailure}) :
       \E r \in {HandleEvent(ee, newOk, o)}, g \in {Split(ee.queueName, ".")[1]} :
         /\ gwChans' = r.gwChans
         /\ sessions' = r.sessions
         /\ evPc' = r.evPc
         /\ evGw' = r.evGw
         /\ panicked' = r.panicked
         /\ hist' = [hist EXCEPT
                       !.last = [NoLast EXCEPT
                                   !.op = "event",
                                   !.kind = r.kind,
                                   !.event = IF Actionable(ee) THEN ee ELSE OtherEvent],
                       !.lastActionable =
                          IF r.kind \in {"created", "absent"}
                          THEN [@ EXCEPT ![g] = ee.eventType] ELSE @,
                       !.closedSince =
                          IF r.kind \in {"created", "absent"}
                          THEN [@ EXCEPT ![g] = FALSE] ELSE @]
    /\ cnt' = [cnt EXCEPT !.events = @ + 1]
    /\ UNCHANGED <<conn, mch, evQue, evChan, queDeleted, ctxDone>>

(* The queue.deleted branch, after ch.Close(): m.gwChans.Remove(gatewayID) *)
RemoveClosed ==
    /\ ~panicked
    /\ evPc = "remove"
    /\ gwChans' = Remove(gwChans, evGw)
    /\ evPc' = "read"
    /\ hist' = [hist EXCEPT !.lastActionable[evGw] = "queue.deleted",
                            !.closedSince[evGw] = FALSE]
    /\ UNCHANGED <<conn, mch, evQue, evChan, queDeleted, sessions, evGw, ctxDone,
                   panicked, cnt>>

----------------------------------------------------------------------------
(* Manager.Close *)

(* The loop over GetChannels(): close each channel, return at the first error *)
RECURSIVE CloseChannels(_, _, _, _)
CloseChannels(order, outs, ss, closed) ==
    IF order = <<>>
    THEN [sessions |-> ss, closed |-> closed, err |-> FALSE]
    ELSE LET i == Head(order)
             ss2 == [ss EXCEPT ![i] = GatewayChannelClose(ss[i], outs[i])]
         IN IF CloseErr(outs[i])
            THEN [sessions |-> ss2, closed |-> closed \cup {i}, err |-> TRUE]
            ELSE CloseChannels(Tail(order), outs, ss2, closed \cup {i})

(* Manager.Close with the channel order, the outcomes of the channel closes and
   of the closes of the management channel and of the connection *)
ManagerCloseResult(order, outs, chErr, connErr) ==
    LET r == CloseChannels(order, outs, sessions, {})
        base == [sessions |-> r.sessions, closed |-> r.closed, queTried |-> FALSE,
                 chTried |-> FALSE, connTried |-> FALSE, mch |-> mch, conn |-> conn,
                 err |-> "none"]
    IN
    IF r.err THEN [base EXCEPT !.err = "gateway"]
    ELSE
      LET q == [base EXCEPT !.queTried = evQue]
      IN
      IF mch # "nil" /\ chErr
      THEN [q EXCEPT !.chTried = TRUE, !.err = "channel"]
      ELSE
        LET c == [q EXCEPT !.chTried = (mch # "nil"),
                           !.mch = IF mch # "nil" THEN "closed" ELSE mch]
        IN
        IF conn # "nil" /\ connErr
        THEN [c EXCEPT !.connTried = TRUE, !.err = "connection"]
        ELSE [c EXCEPT !.connTried = (conn # "nil"),
                       !.conn = IF conn # "nil" THEN "closed" ELSE conn,
                       !.mch = IF conn # "nil" /\ mch # "nil" THEN "closed" ELSE c.mch]

(* The loop reaches position k of the order: no earlier close returned an error *)
Reached(order, outs, k) == \A j \in 1..(k - 1) : ~CloseErr(outs[order[j]])

ManagerClose ==
    /\ ~panicked
    /\ cnt.closes < MaxCloseCalls
    /\ \E order \in GetChannels(gwChans) :
       \E outs \in [Stored(gwChans) -> CloseOutcomes] :
       \E chErr \in (IF mch # "nil" /\ Reached(order, outs, Len(order) + 1)
                     THEN BOOLEAN ELSE {FALSE}) :
       \E connErr \in (IF conn # "nil" /\ ~chErr /\ Reached(order, outs, Len(order) + 1)
                       THEN BOOLEAN ELSE {FALSE}) :
       \E r \in {ManagerCloseResult(order, outs, chErr, connErr)} :
         /\ \A k \in DOMAIN order : ~Reached(order, outs, k) => outs[order[k]] = NoFailure
         /\ sessions' = r.sessions
         /\ mch' = r.mch
         /\ conn' = r.conn
         /\ queDeleted' = IF r.queTried THEN queDeleted + 1 ELSE queDeleted
         /\ hist' = [hist EXCEPT
                       !.closedSince = [g \in GatewayIDs |-> TRUE],
                       !.last = [NoLast EXCEPT
                                   !.op = "close",
                                   !.queTried = r.queTried,
                                   !.chTried = r.chTried,
                                   !.connTried = r.connTried,
                                   !.err = r.err]]
    /\ cnt' = [cnt EXCEPT !.closes = @ + 1]
    /\ UNCHANGED <<evQue, evChan, gwChans, evPc, evGw, ctxDone, panicked>>

----------------------------------------------------------------------------
(* Manager.DoGatewayRPC: look the channel up, then delegate to its DoRPC.  The
   result is the error returned before any delegation, or the channel whose
   DoRPC is called. *)
DoGatewayRPCResult(gatewayID) ==
    LET gwChan == Get(gwChans, gatewayID)
    IN IF gwChan = NoSession
       THEN [result |-> "unknown gateway", session |-> NoSession]
       ELSE [result |-> "delegated", session |-> gwChan]

(* A call of DoGatewayRPC: it reads the registry and writes nothing of the
   manager or of the channel's lifecycle *)
DoGatewayRPC ==
    /\ ~panicked
    /\ \E gatewayID \in GatewayIDs :
         DoGatewayRPCResult(gatewayID).result \in {"unknown gateway", "delegated"}
    /\ UNCHANGED vars

----------------------------------------------------------------------------
(* GatewayChannel.Start: the pump goroutine and the processing goroutines *)

mgrVars == <<conn, mch, evQue, evChan, queDeleted, gwChans, evPc, evGw, ctxDone, hist>>

SetChannel(i, c) == sessions' = [sessions EXCEPT ![i] = c]

(* The reader's Read returns an error: it was closed, its context is done, or
   the broker closed the transport *)
ReadFails(c) == c.cancelled \/ c.outCloses > 0 \/ c.broken

(* Top of the loop: leave on cancellation, otherwise lock mx and call Read *)
PumpSelect(i) ==
    LET c == sessions[i] IN
    /\ c.pump = "select"
    /\ SetChannel(i, [c EXCEPT !.pump = IF c.cancelled THEN "exited" ELSE "read"])
    /\ UNCHANGED <<mgrVars, panicked, cnt>>

(* c.Read(buffer) returns a frame: unlock mx, start the processing goroutine *)
PumpReceive(i) ==
    LET c == sessions[i] IN
    /\ c.pump = "read"
    /\ ~ReadFails(c)
    /\ cnt.frames < MaxFrames
    /\ \E frame \in Frames :
         SetChannel(i, [c EXCEPT
            !.pump = "select",
            !.buffer = CopyInto(c.buffer, frame),
            !.received = @ + 1,
            !.badSeen = (@ \/ Unmarshal(frame).err),
            !.steps = @ \cup {[id |-> c.received + 1, length |-> Len(frame),
                               frame |-> frame, afterBad |-> c.badSeen,
                               pc |-> "decode", msg |-> "",
                               found |-> "", createErr |-> FALSE]}])
    /\ cnt' = [cnt EXCEPT !.frames = @ + 1]
    /\ UNCHANGED <<mgrVars, panicked>>

(* c.Read(buffer) fails on the closed reader: unlock mx and continue *)
PumpReadError(i) ==
    LET c == sessions[i] IN
    /\ c.pump = "read"
    /\ ReadFails(c)
    /\ SetChannel(i, [c EXCEPT !.pump = "select"])
    /\ UNCHANGED <<mgrVars, panicked, cnt>>

(* Processing goroutine: json.Unmarshal(buffer[:length]) under mx *)
StepDecode(i) ==
    LET c == sessions[i] IN
    /\ c.pump # "read"
    /\ \E st \in c.steps :
         /\ st.pc = "decode"
         /\ LET m == Unmarshal(SubSeq(c.buffer, 1, st.length))
            IN SetChannel(i, [c EXCEPT !.steps =
                 IF m.err THEN @ \ {st}
                 ELSE (@ \ {st}) \cup {[st EXCEPT !.pc = "check", !.msg = m.GatewayId]}])
    /\ UNCHANGED <<mgrVars, panicked, cnt>>

(* What the goroutine does after the test of c.bl and CheckGatewayExistence:
   found is "skip" when c.bl is set, else the outcome of the query *)
CheckNext_AbsentCreates(found) ==
    CASE found = "skip" -> "process"
      [] found \in {"exists", "absent"} -> "create"
      [] OTHER -> "return"

CheckNext(found) ==
    CASE found = "skip" -> "process"
      [] found = "exists" -> "create"
      [] OTHER -> "return"

(* Processing goroutine: test c.bl, and CheckGatewayExistence when it is nil *)
StepCheck(i) ==
    LET c == sessions[i] IN
    /\ \E st \in c.steps :
         /\ st.pc = "check"
         /\ \E found \in (IF c.bl = NoLogic THEN {"error", "absent", "exists"} ELSE {"skip"}) :
            \E next \in {CheckNext(found)} :
              SetChannel(i, [c EXCEPT
                 !.notRegistered = @ \/ (found \in {"error", "absent"}),
                 !.steps = IF next = "return" THEN @ \ {st}
                           ELSE (@ \ {st}) \cup {[st EXCEPT !.pc = next, !.found = found]}])
    /\ UNCHANGED <<mgrVars, panicked, cnt>>

(* Processing goroutine: c.bl, err = c.CreateLogic(); both results are assigned
   and the goroutine goes on to Process whatever err is *)
StepCreate(i) ==
    LET c == sessions[i] IN
    /\ \E st \in c.steps :
         /\ st.pc = "create"
         /\ \E ok \in BOOLEAN :
              SetChannel(i, [c EXCEPT
                 !.bl = IF ok THEN st.id ELSE NoLogic,
                 !.steps = (@ \ {st}) \cup {[st EXCEPT !.pc = "process",
                                                       !.createErr = ~ok]}])
    /\ UNCHANGED <<mgrVars, panicked, cnt>>

(* Processing goroutine: c.bl.Process(iotmessage), a nil dereference when c.bl is nil *)
StepProcess(i) ==
    LET c == sessions[i] IN
    /\ \E st \in c.steps :
         /\ st.pc = "process"
         /\ SetChannel(i, [c EXCEPT !.steps = @ \ {st}])
         /\ panicked' = (c.bl = NoLogic)
    /\ UNCHANGED <<mgrVars, cnt>>

(* The broker closes the transport of a channel: every later Read fails *)
TransportClosed ==
    /\ ~panicked
    /\ \E i \in DOMAIN sessions :
         /\ ~sessions[i].broken
         /\ ~sessions[i].cancelled
         /\ SetChannel(i, [sessions[i] EXCEPT !.broken = TRUE])
    /\ UNCHANGED <<mgrVars, panicked, cnt>>

Pump ==
    /\ ~panicked
    /\ \E i \in DOMAIN sessions :
         \/ PumpSelect(i)
         \/ PumpReceive(i)
         \/ PumpReadError(i)
         \/ StepDecode(i)
         \/ StepCheck(i)
         \/ StepCreate(i)
         \/ StepProcess(i)

----------------------------------------------------------------------------
Manager ==
    \/ Open
    \/ EventExchangeInit
    \/ CancelCtx
    \/ ReadInterrupted
    \/ ReadClosed
    \/ ProcessExchangeEvents
    \/ RemoveClosed
    \/ ManagerClose
    \/ DoGatewayRPC

Next == Manager \/ Pump \/ TransportClosed

(* The whole program *)
Spec == Init /\ [][Next]_vars

(* The event loop goroutine keeps being scheduled *)
EventLoop == ReadInterrupted \/ ReadClosed \/ ProcessExchangeEvents \/ RemoveClosed

(* The manager alone: the schedules in which no pump goroutine runs.  The pump
   actions leave mgrVars and the lifecycle fields of every channel unchanged
   (PumpFrame below), so what holds of those here holds in Spec. *)
ManagerSpec == Init /\ [][Manager]_vars

ManagerFairSpec == ManagerSpec /\ WF_vars(EventLoop)

(* One channel at work: the state after Open, EventExchangeInit and a
   queue.created event for "a.in"; its pump and processing goroutines run and
   Manager.Close tears it down. *)
InitChannel ==
    /\ conn = "open"
    /\ mch = "open"
    /\ evQue = TRUE
    /\ evChan = "open"
    /\ queDeleted = 0
    /\ sessions = <<Start(NewGatewayChannel(<<"a">>))>>
    /\ gwChans = Add([g \in GatewayIDs |-> NoSession], <<"a">>, 1)
    /\ evPc = "read"
    /\ evGw = <<>>
    /\ ctxDone = FALSE
    /\ panicked = FALSE
    /\ hist = [HInit EXCEPT !.last = [NoLast EXCEPT
                                        !.op = "event",
                                        !.kind = "created",
                                        !.event = [eventType |-> "queue.created",
                                                   queueName |-> <<"a", ".", "i", "n">>]],
                            !.lastActionable[<<"a">>] = "queue.created"]
    /\ cnt = [events |-> MaxEvents - 1, frames |-> 0, closes |-> MaxCloseCalls - 1]

Channel == Pump \/ TransportClosed \/ ManagerClose

ChannelSpec == InitChannel /\ [][Channel]_vars

(* The loop of the pump goroutine alone *)
PumpLoop ==
    /\ ~panicked
    /\ \E i \in DOMAIN sessions : PumpSelect(i) \/ PumpReceive(i) \/ PumpReadError(i)

(* The pump goroutine keeps being scheduled, and a Read that fails returns *)
PumpRuns ==
    /\ ~panicked
    /\ \E i \in DOMAIN sessions : PumpSelect(i) \/ PumpReadError(i)

(* The pump loop of one channel, its transport and Manager.Close: the schedules
   of ChannelSpec in which the processing goroutines have not run yet.  They
   write only steps, bl and notRegistered of the channel, none of which the
   loop reads, so the loop moves here as it does in ChannelSpec while the
   process runs. *)
PumpFairSpec ==
    InitChannel /\ [][PumpLoop \/ TransportClosed \/ ManagerClose]_vars /\ WF_vars(PumpRuns)

(* The pump and the processing goroutines write none of the manager's state and
   none of the lifecycle fields of a channel *)
Lifecycle(c) == <<c.gatewayId, c.cancelled, c.outCloses, c.inCloses, c.offline,
                  c.closeCalls, c.lastClose>>

PumpFrame ==
    [][Pump => /\ UNCHANGED mgrVars
               /\ DOMAIN sessions' = DOMAIN sessions
               /\ \A i \in DOMAIN sessions :
                     Lifecycle(sessions'[i]) = Lifecycle(sessions[i])]_vars

----------------------------------------------------------------------------
(* Claims *)

(* Stop has been called on the channel *)
Stopped(c) == c.cancelled

(* The channel is live: its pump was started and Stop was not called *)
Live(c) == c.pump # "idle" /\ ~Stopped(c)

HasLive(g) == gwChans[g] # NoSession /\ Live(sessions[gwChans[g]])

In(g) == g \o <<".", "i", "n">>

(* A step of Manager.Close *)
ClosesManager == cnt'.closes = cnt.closes + 1

(* An iteration of the event loop on a delivered event *)
HandlesEvent == cnt'.events = cnt.events + 1

(* C1: between two iterations of the event loop, the registry holds a live
   session for gateway g if and only if the last actionable event handled for g
   was queue.created and Manager.Close was not called since. *)
C1_LiveIffCreated ==
    (evPc = "read" /\ ~panicked) =>
        \A g \in GatewayIDs :
            HasLive(g) <=> (/\ hist.lastActionable[g] = "queue.created"
                            /\ ~hist.closedSince[g])

(* C2: every live session is the one the registry holds for its gateway, so
   there is at most one live session per gateway and a replaced session was
   closed. *)
C2_OneLivePerGateway ==
    \A i \in DOMAIN sessions :
        Live(sessions[i]) => gwChans[sessions[i].gatewayId] = i

(* C3: Manager.Close called with two sessions in the registry closes both and
   leaves the registry empty, and no call of Manager.Close panics. *)
C3_CloseEmptiesRegistry ==
    [][ClosesManager =>
         /\ ~panicked'
         /\ Cardinality(Stored(gwChans)) = 2 =>
               /\ \A i \in Stored(gwChans) : Stopped(sessions'[i])
               /\ Stored(gwChans') = {}]_vars

(* C4: when the close of a session fails inside Manager.Close, every
   registered session is closed all the same, the queue deletion, the channel
   close and the connection close are attempted, and the error of the session
   is the one returned. *)
C4_CloseBestEffort ==
    [][(/\ ClosesManager
        /\ \E i \in Stored(gwChans) :
              /\ sessions'[i].closeCalls = sessions[i].closeCalls + 1
              /\ sessions'[i].lastClose.err)
       => (/\ \A i \in Stored(gwChans) :
                 sessions'[i].closeCalls = sessions[i].closeCalls + 1
           /\ evQue => hist'.last.queTried
           /\ mch # "nil" => hist'.last.chTried
           /\ conn # "nil" => hist'.last.connTried
           /\ hist'.last.err = "gateway")]_vars

(* C5: once the context is cancelled the event loop eventually returns, and it
   handles no event after the cancellation. *)
C5_LoopExitsOnCancel ==
    /\ ctxDone ~> (evPc = "returned")
    /\ [][ctxDone => ~HandlesEvent]_vars

(* C6: a queue.deleted event for a gateway with no session in the registry
   leaves the registry and every session unchanged, and the loop goes on. *)
C6_DeleteAbsentNoop ==
    [][\A g \in GatewayIDs :
         (/\ HandlesEvent
          /\ hist'.last.event = [eventType |-> "queue.deleted", queueName |-> In(g)]
          /\ Get(gwChans, g) = NoSession)
         => (/\ gwChans' = gwChans
             /\ sessions' = sessions
             /\ ~panicked'
             /\ evPc' = "read")]_vars

(* A delete of an absent gateway was just handled while another gateway has a
   live session *)
C6_Witness ==
    /\ hist.last.op = "event"
    /\ hist.last.kind = "absent"
    /\ hist.last.event.eventType = "queue.deleted"
    /\ ~panicked
    /\ evPc = "read"
    /\ \E g \in GatewayIDs : HasLive(g)

(* C7: whenever DoGatewayRPC is called for a gateway without a live session
   (never created, removed by a queue.deleted event, or closed by
   Manager.Close) it returns the unknown-gateway error and does not delegate. *)
C7_UnknownGateway ==
    (evPc = "read" /\ ~panicked) =>
        \A g \in GatewayIDs :
            ~HasLive(g) => DoGatewayRPCResult(g).result = "unknown gateway"

(* C8: no channel has a transport direction closed twice or more than one
   offline status update. *)
C8_StopIdempotent ==
    \A i \in DOMAIN sessions :
        /\ sessions[i].outCloses <= 1
        /\ sessions[i].inCloses <= 1
        /\ sessions[i].offline <= 1

(* C9: every Close of a channel, whatever its transport closes return, has
   cancelled the token, called Close on both transport directions and run the
   offline status update. *)
C9_DestructionComplete ==
    \A i \in DOMAIN sessions :
        LET c == sessions[i] IN
        c.closeCalls > 0 =>
            /\ c.cancelled
            /\ c.outCloses >= c.closeCalls
            /\ c.inCloses >= c.closeCalls
            /\ c.offline >= c.closeCalls

(* A channel was closed and a transport close inside Stop failed *)
C9_Witness ==
    \E i \in DOMAIN sessions :
        /\ sessions[i].closeCalls > 0
        /\ sessions[i].lastClose.stopErr

(* C10: a malformed frame never ends the pump, and a well-formed frame
   received after a malformed one is decoded by its processing goroutine and
   goes on to processing, while the channel is not stopped. *)
C10_MalformedDoesNotStopPump ==
    /\ [](\A i \in DOMAIN sessions : sessions[i].pump = "exited" => Stopped(sessions[i]))
    /\ [][\A i \in DOMAIN sessions : \A st \in sessions[i].steps :
            (/\ st.pc = "decode"
             /\ st.afterBad
             /\ ~Unmarshal(st.frame).err
             /\ ~Stopped(sessions[i])
             /\ st \notin sessions'[i].steps)
            => \E st2 \in sessions'[i].steps :
                  /\ st2.id = st.id
                  /\ st2.pc = "check"
                  /\ st2.msg = Unmarshal(st.frame).GatewayId]_vars

(* C11: when the goroutine of a decoded message finds no business logic and the
   existence check reports an error or no such gateway, the goroutine returns:
   it never reaches CreateLogic or Process, c.bl is not written, and the pump
   and the channel go on as they were.  A goroutine that goes on to CreateLogic
   was told that the gateway exists. *)
C11_NotRegisteredDropped ==
    [][\A i \in DOMAIN sessions : \A st \in sessions[i].steps :
         (/\ st.pc = "check"
          /\ sessions[i].bl = NoLogic
          /\ st \notin sessions'[i].steps)
         => \/ \E st2 \in sessions'[i].steps :
                 /\ st2.id = st.id
                 /\ st2.pc = "create"
                 /\ st2.found = "exists"
                 /\ sessions'[i].bl = NoLogic
            \/ /\ \A st2 \in sessions'[i].steps : st2.id # st.id
               /\ sessions'[i].notRegistered
               /\ sessions'[i].bl = NoLogic
               /\ sessions'[i].pump = sessions[i].pump
               /\ Lifecycle(sessions'[i]) = Lifecycle(sessions[i])
               /\ ~panicked']_vars

(* A message was dropped by the existence check and the channel runs on: it is
   not stopped, its pump has not left the loop, and nothing panicked *)
C11_Witness ==
    \E i \in DOMAIN sessions :
        /\ sessions[i].notRegistered
        /\ sessions[i].bl = NoLogic
        /\ ~Stopped(sessions[i])
        /\ sessions[i].pump \in {"select", "read"}
        /\ sessions[i].received > 1
        /\ ~panicked

(* C12: once c.bl holds a business logic, no goroutine of the channel runs
   CreateLogic again and c.bl is never written again. *)
C12_LogicCreatedOnce ==
    [][\A i \in DOMAIN sessions :
         sessions[i].bl # NoLogic =>
            /\ sessions'[i].bl = sessions[i].bl
            /\ \A st \in sessions[i].steps :
                  st.pc = "create" => st \in sessions'[i].steps]_vars

(* C13: a goroutine whose CreateLogic failed returns without calling Process,
   Process is never called while c.bl is nil, and nothing panics. *)
C13_CreateFailureDropped ==
    /\ [](\A i \in DOMAIN sessions : \A st \in sessions[i].steps :
             st.pc = "process" => ~st.createErr)
    /\ [][\A i \in DOMAIN sessions : \A st \in sessions[i].steps :
             (st.pc = "process" /\ st \notin sessions'[i].steps)
             => (sessions[i].bl # NoLogic /\ ~panicked')]_vars

(* C14: the bytes a processing goroutine decodes are those of the frame whose
   receive started it, whatever the pump received since. *)
C14_DecodesOwnFrame ==
    [][\A i \in DOMAIN sessions : \A st \in sessions[i].steps :
         (st.pc = "decode" /\ st \notin sessions'[i].steps)
         => SubSeq(sessions[i].buffer, 1, st.length) = st.frame]_vars

(* The broker closed the transport of a channel whose token is not cancelled *)
BrokenLive ==
    \E i \in DOMAIN sessions : sessions[i].broken /\ ~sessions[i].cancelled

(* C15: when the broker has closed the transport of a channel whose token is
   not cancelled, the channel is eventually torn down: its token is cancelled,
   its transport is closed, the offline update has run and the pump has left
   its loop (or the process has ended). *)
C15_ClosedTransportDestroys ==
    BrokenLive ~>
        (\/ panicked
         \/ \A i \in DOMAIN sessions :
               sessions[i].broken =>
                  /\ sessions[i].cancelled
                  /\ sessions[i].outCloses > 0
                  /\ sessions[i].inCloses > 0
                  /\ sessions[i].offline > 0
                  /\ sessions[i].pump = "exited")

(* Stop was called on a channel whose pump goroutine is still running *)
StoppedRunning ==
    /\ ~panicked
    /\ \E i \in DOMAIN sessions :
          Stopped(sessions[i]) /\ sessions[i].pump # "exited"

(* C16: Stop never closes a transport direction before it has cancelled the
   token, and once Stop has been called the pump goroutine does not keep
   running: its Read returns, it finds the context done and leaves the loop
   (a panic of another goroutine ends it with the process). *)
C16_CancelThenPumpExits ==
    /\ [](\A i \in DOMAIN sessions : ~sessions[i].closedLive)
    /\ StoppedRunning ~> ~StoppedRunning

(* A channel that received frames was stopped while its pump was in Read, and
   the pump has left the loop *)
C16_Witness ==
    /\ ~panicked
    /\ \E i \in DOMAIN sessions :
          /\ Stopped(sessions[i])
          /\ sessions[i].received > 0
          /\ sessions[i].outCloses > 0
          /\ ~sessions[i].closedLive
          /\ sessions[i].pump = "exited"

(* C17: when a transport close failed inside Stop, GatewayChannel.Close returns
   an error. *)
C17_CloseReturnsFirstError ==
    \A i \in DOMAIN sessions :
        (sessions[i].closeCalls > 0 /\ sessions[i].lastClose.stopErr)
            => sessions[i].lastClose.err

(* C18: an event that is not actionable (no queue name, a name without the
   "in" direction, or a type other than queue.created and queue.deleted) leaves
   the registry and every channel unchanged, does not panic, and the loop goes
   on to the next read. *)
C18_NonActionableIgnored ==
    [][(HandlesEvent /\ hist'.last.event = OtherEvent)
       => (/\ gwChans' = gwChans
           /\ sessions' = sessions
           /\ ~panicked'
           /\ evPc' = "read")]_vars

(* C19: a queue.created event for which NewGatewayChannel builds no channel
   does not panic the event loop, leaves the registry unchanged, and the loop
   goes on to the next read. *)
C19_CreateFailureContained ==
    [][(/\ HandlesEvent
        /\ hist'.last.event.eventType = "queue.created"
        /\ Len(sessions') = Len(sessions))
       => (/\ ~panicked'
           /\ gwChans' = gwChans
           /\ evPc' = "read")]_vars

(* C20: at every point of every interleaving, the channel DoGatewayRPC would
   delegate to is one on which Stop has not been called. *)
C20_NeverDelegatesToStopped ==
    ~panicked =>
        \A g \in GatewayIDs :
            DoGatewayRPCResult(g).result = "delegated"
                => ~Stopped(sessions[DoGatewayRPCResult(g).session])
====
